---- MODULE Spec2Model ----
(***************************************************************************)
(* price_tracker: the Pantry basket store client                           *)
(* (internal/storage/pantry/client.go), the EMMSA price scraper            *)
(* (internal/api/emmsa) and the price-tracker process                      *)
(* (cmd/price-tracker/main.go).  Every operation of a component is one     *)
(* HTTP exchange: a Send step that builds and issues the request, and a    *)
(* Return step that takes the outcome of http.Client.Do and computes the   *)
(* operation's result.  A run of the process goes from one exchange to the *)
(* next, and BasketName and NewConfigFromEnv are also applied on their own. *)
(* Two runs of saveToPantry for one date against one store are followed    *)
(* request by request.                                                     *)
(***************************************************************************)
EXTENDS Integers, Sequences, FiniteSets, TLC

VARIABLES
    manager,    \* BasketManager: baseURL, apiKey, httpClient
    pc,         \* position of the current store call: "idle", "waiting", "done"
    call,       \* the current store call: op, basketName, data, target type
    requests,   \* HTTP requests issued by the current store call
    resp,       \* outcome of httpClient.Do for the current store call
    ret,        \* what the store call returned: val, target, err
    ctx,        \* the context of the current store call: "none", "live",
                \* "canceled", "deadline exceeded"
    scraper,    \* EMMSAScraper: httpClient
    spc,        \* position of the current ScrapePrices call
    sdate,      \* the date argument of the current ScrapePrices call
    srequests,  \* HTTP requests issued by the current ScrapePrices call
    sresp,      \* outcome of httpClient.Do / io.ReadAll for the current call
    sparsed,    \* TRUE iff parsePriceTable ran in the current call
    sret,       \* what ScrapePrices returned: prices, err
    args,       \* command line of the price-tracker process: the flags
    env,        \* environment of the process: PANTRY_API_KEY
    now,        \* the clock of the process: what time.Now() returns
    cpc,        \* position of main: "main", "scrape", "exists", "create",
                \* "update", "signal", "exited"
    cdate,      \* the date of the run
    cdata,      \* the data map built by runPriceScraping
    out,        \* the JSON written, and where
    exited,     \* TRUE iff the process has exited
    exitCode,   \* its exit status
    fatal,      \* the message chain of log.Fatalf, <<>> if none
    net,        \* outbound HTTP requests of the process, in order of issue
    steps,      \* what the steps of saveToPantry returned, in order
    metrics,    \* the metrics server goroutine: "none", "starting",
                \* "serving", "closed"
    fn,         \* the function applied on its own, "none" if none is
    fin,        \* its argument
    fout,       \* its result, once it has returned
    runs,       \* two concurrent runs of saveToPantry: position and error
    remote,     \* the basket of their date in the store: present, payload
    served,     \* the requests the store has answered, in order
    rdate       \* the date of the two runs

storeVars == <<manager, pc, call, requests, resp, ret, ctx>>
scraperVars == <<scraper, spc, sdate, srequests, sresp, sparsed, sret>>
cliVars == <<args, env, now, cpc, cdate, cdata, out, exited, exitCode, fatal, net, steps,
             metrics>>
fnVars == <<fn, fin, fout>>
raceVars == <<runs, remote, served, rdate>>
vars == <<manager, pc, call, requests, resp, ret, ctx,
          scraper, spc, sdate, srequests, sresp, sparsed, sret,
          args, env, now, cpc, cdate, cdata, out, exited, exitCode, fatal, net, steps,
          metrics,
          fn, fin, fout,
          runs, remote, served, rdate>>

\* What an operation of the store client, an operation of the scraper and
\* a step of the process leave alone.
nonStoreVars == <<scraperVars, cliVars, fnVars, raceVars>>
nonScraperVars == <<storeVars, cliVars, fnVars, raceVars>>
nonCLIVars == <<fnVars, raceVars>>

----------------------------------------------------------------------------
(* net/http *)

StatusOK == 200

\* Status codes the remote side answers with in this model.
Statuses == {200, 201, 204, 400, 401, 404, 500}

StatusText(code) ==
    CASE code = 200 -> "OK"
      [] code = 201 -> "Created"
      [] code = 204 -> "No Content"
      [] code = 400 -> "Bad Request"
      [] code = 401 -> "Unauthorized"
      [] code = 404 -> "Not Found"
      [] code = 500 -> "Internal Server Error"
      [] OTHER -> ""

\* resp.Status, the status line: "400 Bad Request"
StatusLine(code) == ToString(code) \o " " \o StatusText(code)

\* Causes of a non-nil error of httpClient.Do: no response is received.
TransportCauses ==
    {"dial tcp: lookup getpantry.cloud: no such host",
     "dial tcp: connect: connection refused",
     "context deadline exceeded (Client.Timeout exceeded while awaiting headers)",
     "context canceled"}

----------------------------------------------------------------------------
(* errors: fmt.Errorf("<prefix>: %s", detail); nil is Nil *)

Nil == [prefix |-> "<nil>", detail |-> ""]

Errorf(prefix, detail) == [prefix |-> prefix, detail |-> detail]

----------------------------------------------------------------------------
(* encoding/json, as far as the client uses it.  A body is the first JSON  *)
(* value of the byte stream (or none, when the bytes do not scan as one)   *)
(* and whether non-blank bytes follow that value.                          *)

Null == <<"null", "">>
Str(s) == <<"string", s>>
Num(s) == <<"number", s>>

InvalidBody(text) ==
    [kind |-> "invalid", sc |-> <<"text", text>>, arr |-> <<>>, obj |-> <<>>, trail |-> FALSE]
ScalarBody(x, t) ==
    [kind |-> "scalar", sc |-> x, arr |-> <<>>, obj |-> <<>>, trail |-> t]
ArrayBody(a, t) ==
    [kind |-> "array", sc |-> Null, arr |-> a, obj |-> <<>>, trail |-> t]
ObjectBody(o, t) ==
    [kind |-> "object", sc |-> Null, arr |-> <<>>, obj |-> o, trail |-> t]

\* strings.EqualFold(key, "message"), over the keys of this model
FoldsToMessage(key) == key \in {"message", "Message"}

\* The members of an object that land in ErrorResponse.Message.
MessageMembers(o) == {i \in 1..Len(o) : FoldsToMessage(o[i][1])}

\* The value ErrorResponse.Message holds after the object is decoded: the
\* last string member wins, a null member leaves the field alone.
RECURSIVE MessageAfter(_, _, _)
MessageAfter(o, i, acc) ==
    IF i > Len(o) THEN acc
    ELSE IF FoldsToMessage(o[i][1]) /\ o[i][2][1] = "string"
         THEN MessageAfter(o, i + 1, o[i][2][2])
         ELSE MessageAfter(o, i + 1, acc)

\* json.Unmarshal(body, &errResp) with errResp an ErrorResponse: the whole
\* input must be one valid JSON value; null is a no-op; an object fills the
\* field from a "message" member and ignores unknown members; any other
\* value, or a non-string message, is an UnmarshalTypeError.
UnmarshalErrorResponse(b) ==
    IF b.kind = "invalid" \/ b.trail
    THEN [err |-> TRUE, Message |-> ""]
    ELSE IF b.kind = "scalar"
    THEN [err |-> b.sc # Null, Message |-> ""]
    ELSE IF b.kind = "array"
    THEN [err |-> TRUE, Message |-> ""]
    ELSE [err |-> \E i \in MessageMembers(b.obj) : b.obj[i][2][1] = "number",
          Message |-> MessageAfter(b.obj, 1, "")]

\* json.NewDecoder(resp.Body).Decode(&baskets) with baskets a []string:
\* decodes the first JSON value of the stream and leaves the rest unread.
DecodeStrings(b) ==
    IF b.kind = "invalid"
    THEN [err |-> TRUE, val |-> <<>>]
    ELSE IF b.kind = "scalar"
    THEN [err |-> b.sc # Null, val |-> <<>>]
    ELSE IF b.kind = "object"
    THEN [err |-> TRUE, val |-> <<>>]
    ELSE [err |-> \E i \in 1..Len(b.arr) : b.arr[i][1] = "number",
          val |-> [i \in 1..Len(b.arr) |->
                      IF b.arr[i][1] = "string" THEN b.arr[i][2] ELSE ""]]

\* Target shapes GetBasket is called with (client_test.go:242, client.go:252).
TargetTypes == {"map[string]string", "map[string]interface {}"}

\* The map entry a member decodes to, for a map of the given element type.
MemberValue(ttype, v) ==
    IF ttype = "map[string]string"
    THEN (IF v[1] = "string" THEN v ELSE Str(""))
    ELSE v

\* json.NewDecoder(resp.Body).Decode(target) with target a pointer to a map:
\* the map as a set of <<key, value>> entries.
DecodeTarget(b, ttype) ==
    IF b.kind = "invalid"
    THEN [err |-> TRUE, val |-> {}]
    ELSE IF b.kind = "scalar"
    THEN [err |-> b.sc # Null, val |-> {}]
    ELSE IF b.kind = "array"
    THEN [err |-> TRUE, val |-> {}]
    ELSE [err |-> /\ ttype = "map[string]string"
                  /\ \E i \in 1..Len(b.obj) : b.obj[i][2][1] = "number",
          val |-> {<<b.obj[i][1], MemberValue(ttype, b.obj[i][2])>> : i \in 1..Len(b.obj)}]

\* json.Marshal(data): fails on a value JSON cannot carry (a channel, NaN).
Payloads == {"payload-a", "payload-b", "unmarshalable"}
MarshalFails(data) == data = "unmarshalable"

----------------------------------------------------------------------------
(* What the remote store may answer. *)

StoreBodies ==
    {InvalidBody(""), InvalidBody("oops")}
    \cup {ScalarBody(Null, t) : t \in BOOLEAN}
    \cup {ScalarBody(Str("basket1"), FALSE), ScalarBody(Num("5"), FALSE)}
    \cup {ArrayBody(<<Str("basket1"), Str("basket2")>>, t) : t \in BOOLEAN}
    \cup {ArrayBody(<<>>, FALSE),
          ArrayBody(<<Str("basket2"), Str("basket1")>>, FALSE),
          ArrayBody(<<Str("basket1"), Num("5")>>, FALSE),
          ArrayBody(<<Null>>, FALSE)}
    \cup {ObjectBody(<<>>, t) : t \in BOOLEAN}
    \cup {ObjectBody(<<<<"message", Str("invalid request")>>>>, t) : t \in BOOLEAN}
    \cup {ObjectBody(<<<<"key", Str("value")>>>>, t) : t \in BOOLEAN}
    \cup {ObjectBody(<<<<"message", Num("5")>>>>, FALSE),
          ObjectBody(<<<<"message", Null>>>>, FALSE),
          ObjectBody(<<<<"message", Str("")>>>>, FALSE),
          ObjectBody(<<<<"Message", Str("invalid data")>>>>, FALSE),
          ObjectBody(<<<<"error", Str("invalid data")>>>>, FALSE),
          ObjectBody(<<<<"key", Str("value")>>, <<"n", Num("5")>>>>, FALSE)}

NoResp == [got |-> "none", cause |-> "", status |-> 0, body |-> InvalidBody("")]

\* The outcomes of httpClient.Do(req): an error and no response, or a response.
StoreOutcomes ==
    {[got |-> "error", cause |-> c, status |-> 0, body |-> InvalidBody("")] :
        c \in TransportCauses}
    \cup {[got |-> "response", cause |-> "", status |-> st, body |-> b] :
        st \in Statuses, b \in StoreBodies}

\* ctx.Err() of a context that is done
CtxErr(c) == IF c = "canceled" THEN "context canceled" ELSE "context deadline exceeded"

\* httpClient.Do as it would be for a request built without the context
\* (http.NewRequest): the exchange goes on whatever becomes of the context.
DoIgnoresContext(c) == StoreOutcomes

\* The outcomes of m.httpClient.Do(req) for a request built with
\* http.NewRequestWithContext(ctx, ...): once the context is done the wait
\* is aborted and Do returns the context's error.
DoOutcomes(c) ==
    IF c \in {"canceled", "deadline exceeded"}
    THEN {[got |-> "error", cause |-> CtxErr(c), status |-> 0, body |-> InvalidBody("")]}
    ELSE StoreOutcomes

----------------------------------------------------------------------------
(* BasketManager *)

APIKeys == {"test-key", "test-key-123"}

ClientTimeoutSeconds == 10

NewBasketManager(cfg) ==
    [baseURL |-> "https://getpantry.cloud/apiv1/pantry",
     apiKey |-> cfg.APIKey,
     httpClient |-> [Timeout |-> ClientTimeoutSeconds]]

\* A component is usable once constructed: the zero value holds no HTTP
\* client, and a method called on it dereferences a nil pointer.
Constructed(c) == c.httpClient.Timeout # 0

\* Basket names a caller passes; the last one holds an invalid URL escape.
BasketNames == {"prices_2025_06_17", "test-basket", "bad%zz"}

\* fmt.Sprintf("%s/%s/basket/%s", m.baseURL, m.apiKey, basketName)
BasketURL(m, basketName) == <<m.baseURL, m.apiKey, "basket", basketName>>

\* fmt.Sprintf("%s/%s/baskets", m.baseURL, m.apiKey)
BasketsURL(m) == <<m.baseURL, m.apiKey, "baskets">>

\* http.NewRequestWithContext fails iff url.Parse rejects the URL.
URLParses(url) == \A i \in 1..Len(url) : url[i] # "bad%zz"

Request(method, url, body, contentType) ==
    [body |-> body, url |-> url, method |-> method, contentType |-> contentType]

NoRet == [err |-> Nil, exists |-> FALSE, baskets |-> <<>>, target |-> {}, returned |-> FALSE]

Return(exists, baskets, target, err) ==
    [err |-> err, exists |-> exists, baskets |-> baskets, target |-> target, returned |-> TRUE]

\* The error of a non-OK response: the provider's message when the body
\* unmarshals into ErrorResponse, the status line otherwise.
ErrorFromResponse(prefix, o) ==
    LET errResp == UnmarshalErrorResponse(o.body) IN
    IF ~errResp.err
    THEN Errorf(prefix, errResp.Message)
    ELSE Errorf(prefix, StatusLine(o.status))

\* The start of a call: either the request cannot be built and the call
\* returns early with earlyErr, or the request is issued and the call
\* awaits the return of m.httpClient.Do.
Begin(earlyErr, req) ==
    IF earlyErr # Nil
    THEN [pc |-> "done", requests |-> <<>>, ret |-> Return(FALSE, <<>>, {}, earlyErr)]
    ELSE [pc |-> "waiting", requests |-> <<req>>, ret |-> NoRet]

Call(op, basketName, data, ttype) ==
    [ttype |-> ttype, data |-> data, basketName |-> basketName, op |-> op]

(* CreateBasket *)
CreateBasketResult(o) ==
    IF o.got = "error"
    THEN Return(FALSE, <<>>, {}, Errorf("request failed", o.cause))
    ELSE IF o.status # StatusOK
    THEN Return(FALSE, <<>>, {}, ErrorFromResponse("failed to create basket", o))
    ELSE Return(FALSE, <<>>, {}, Nil)

CreateBasketSend ==
    /\ Constructed(manager)
    /\ pc \in {"idle", "done"}
    /\ \E basketName \in BasketNames :
        LET url == BasketURL(manager, basketName)
            begun == Begin(IF URLParses(url) THEN Nil
                           ELSE Errorf("failed to create request", "invalid URL escape"),
                           Request("POST", url, "", "application/json"))
        IN  /\ call' = Call("CreateBasket", basketName, "", "")
            /\ ret' = begun.ret
            /\ requests' = begun.requests
            /\ pc' = begun.pc
    /\ resp' = NoResp
    /\ ctx' = "live"
    /\ UNCHANGED manager
    /\ UNCHANGED nonStoreVars

\* CreateBasket as it would be if it kept the address of the last answer
\* as the base URL of later calls.
CreateBasketRebases ==
    /\ pc = "waiting"
    /\ call.op = "CreateBasket"
    /\ \E o \in DoOutcomes(ctx) :
        /\ resp' = o
        /\ ret' = CreateBasketResult(o)
    /\ manager' = [manager EXCEPT !.baseURL = "https://getpantry.cloud/apiv2/pantry"]
    /\ pc' = "done"
    /\ UNCHANGED <<call, requests, ctx>>
    /\ UNCHANGED nonStoreVars

CreateBasket ==
    /\ pc = "waiting"
    /\ call.op = "CreateBasket"
    /\ \E o \in DoOutcomes(ctx) :
        /\ resp' = o
        /\ ret' = CreateBasketResult(o)
    /\ pc' = "done"
    /\ UNCHANGED <<manager, call, requests, ctx>>
    /\ UNCHANGED nonStoreVars

\* BasketExists as it would be with "any 2xx" taken for existence.
BasketExistsAny2xx(o) ==
    IF o.got = "error"
    THEN Return(FALSE, <<>>, {}, Errorf("request failed", o.cause))
    ELSE Return(o.status \in 200..299, <<>>, {}, Nil)

\* BasketExists as it would be with the transport error dropped.
BasketExistsSwallowsError(o) ==
    IF o.got = "error"
    THEN Return(FALSE, <<>>, {}, Nil)
    ELSE Return(o.status = StatusOK, <<>>, {}, Nil)

(* BasketExists *)
BasketExistsResult(o) ==
    IF o.got = "error"
    THEN Return(FALSE, <<>>, {}, Errorf("request failed", o.cause))
    ELSE Return(o.status = StatusOK, <<>>, {}, Nil)

BasketExistsSend ==
    /\ Constructed(manager)
    /\ pc \in {"idle", "done"}
    /\ \E basketName \in BasketNames :
        LET url == BasketURL(manager, basketName)
            begun == Begin(IF URLParses(url) THEN Nil
                           ELSE Errorf("failed to create request", "invalid URL escape"),
                           Request("GET", url, "", ""))
        IN  /\ call' = Call("BasketExists", basketName, "", "")
            /\ ret' = begun.ret
            /\ requests' = begun.requests
            /\ pc' = begun.pc
    /\ resp' = NoResp
    /\ ctx' = "live"
    /\ UNCHANGED manager
    /\ UNCHANGED nonStoreVars

BasketExists ==
    /\ pc = "waiting"
    /\ call.op = "BasketExists"
    /\ \E o \in DoOutcomes(ctx) :
        /\ resp' = o
        /\ ret' = BasketExistsResult(o)
    /\ pc' = "done"
    /\ UNCHANGED <<manager, call, requests, ctx>>
    /\ UNCHANGED nonStoreVars

(* ListBaskets *)
ListBasketsResult(o) ==
    IF o.got = "error"
    THEN Return(FALSE, <<>>, {}, Errorf("request failed", o.cause))
    ELSE IF o.status # StatusOK
    THEN Return(FALSE, <<>>, {}, ErrorFromResponse("failed to list baskets", o))
    ELSE LET d == DecodeStrings(o.body) IN
         IF d.err
         THEN Return(FALSE, <<>>, {}, Errorf("failed to decode response", "json"))
         ELSE Return(FALSE, d.val, {}, Nil)

ListBasketsSend ==
    /\ Constructed(manager)
    /\ pc \in {"idle", "done"}
    /\ LET url == BasketsURL(manager)
           begun == Begin(Nil, Request("GET", url, "", ""))
       IN  /\ call' = Call("ListBaskets", "", "", "")
           /\ ret' = begun.ret
           /\ requests' = begun.requests
           /\ pc' = begun.pc
    /\ resp' = NoResp
    /\ ctx' = "live"
    /\ UNCHANGED manager
    /\ UNCHANGED nonStoreVars

ListBaskets ==
    /\ pc = "waiting"
    /\ call.op = "ListBaskets"
    /\ \E o \in DoOutcomes(ctx) :
        /\ resp' = o
        /\ ret' = ListBasketsResult(o)
    /\ pc' = "done"
    /\ UNCHANGED <<manager, call, requests, ctx>>
    /\ UNCHANGED nonStoreVars

\* UpdateBasket as it would be with the status check left out.
UpdateBasketNoStatusCheck(o) ==
    IF o.got = "error"
    THEN Return(FALSE, <<>>, {}, Errorf("request failed", o.cause))
    ELSE Return(FALSE, <<>>, {}, Nil)

(* UpdateBasket *)
UpdateBasketResult(o) ==
    IF o.got = "error"
    THEN Return(FALSE, <<>>, {}, Errorf("request failed", o.cause))
    ELSE IF o.status # StatusOK
    THEN Return(FALSE, <<>>, {}, ErrorFromResponse("failed to update basket", o))
    ELSE Return(FALSE, <<>>, {}, Nil)

UpdateBasketSend ==
    /\ Constructed(manager)
    /\ pc \in {"idle", "done"}
    /\ \E basketName \in BasketNames, data \in Payloads :
        LET url == BasketURL(manager, basketName)
            begun == Begin(IF MarshalFails(data)
                           THEN Errorf("failed to marshal data", "unsupported type")
                           ELSE IF URLParses(url) THEN Nil
                           ELSE Errorf("failed to create request", "invalid URL escape"),
                           Request("PUT", url, data, "application/json"))
        IN  /\ call' = Call("UpdateBasket", basketName, data, "")
            /\ ret' = begun.ret
            /\ requests' = begun.requests
            /\ pc' = begun.pc
    /\ resp' = NoResp
    /\ ctx' = "live"
    /\ UNCHANGED manager
    /\ UNCHANGED nonStoreVars

\* UpdateBasket as it would be with one retry after a transport failure.
UpdateBasketRetries ==
    /\ pc = "waiting"
    /\ call.op = "UpdateBasket"
    /\ \E o \in DoOutcomes(ctx) :
        /\ resp' = o
        /\ IF o.got = "error" /\ Len(requests) < 2
           THEN /\ requests' = Append(requests, requests[1])
                /\ ret' = ret
                /\ pc' = "waiting"
           ELSE /\ requests' = requests
                /\ ret' = UpdateBasketResult(o)
                /\ pc' = "done"
    /\ UNCHANGED <<manager, call, ctx>>
    /\ UNCHANGED nonStoreVars

UpdateBasket ==
    /\ pc = "waiting"
    /\ call.op = "UpdateBasket"
    /\ \E o \in DoOutcomes(ctx) :
        /\ resp' = o
        /\ ret' = UpdateBasketResult(o)
    /\ pc' = "done"
    /\ UNCHANGED <<manager, call, requests, ctx>>
    /\ UNCHANGED nonStoreVars

(* GetBasket *)
GetBasketResult(o, ttype) ==
    IF o.got = "error"
    THEN Return(FALSE, <<>>, {}, Errorf("request failed", o.cause))
    ELSE IF o.status # StatusOK
    THEN Return(FALSE, <<>>, {}, ErrorFromResponse("failed to get basket", o))
    ELSE LET d == DecodeTarget(o.body, ttype) IN
         IF d.err
         THEN Return(FALSE, <<>>, d.val, Errorf("failed to decode response", "json"))
         ELSE Return(FALSE, <<>>, d.val, Nil)

GetBasketSend ==
    /\ Constructed(manager)
    /\ pc \in {"idle", "done"}
    /\ \E basketName \in BasketNames, ttype \in TargetTypes :
        LET url == BasketURL(manager, basketName)
            begun == Begin(IF URLParses(url) THEN Nil
                           ELSE Errorf("failed to create request", "invalid URL escape"),
                           Request("GET", url, "", ""))
        IN  /\ call' = Call("GetBasket", basketName, "", ttype)
            /\ ret' = begun.ret
            /\ requests' = begun.requests
            /\ pc' = begun.pc
    /\ resp' = NoResp
    /\ ctx' = "live"
    /\ UNCHANGED manager
    /\ UNCHANGED nonStoreVars

GetBasket ==
    /\ pc = "waiting"
    /\ call.op = "GetBasket"
    /\ \E o \in DoOutcomes(ctx) :
        /\ resp' = o
        /\ ret' = GetBasketResult(o, call.ttype)
    /\ pc' = "done"
    /\ UNCHANGED <<manager, call, requests, ctx>>
    /\ UNCHANGED nonStoreVars

----------------------------------------------------------------------------
(* time.Time: the wall clock reading in the value's own location, and the  *)
(* offset of that location east of UTC, in hours.                          *)

Time(year, month, day, hour, offset) ==
    [year |-> year, month |-> month, day |-> day, hour |-> hour, offset |-> offset]

ZeroTime == Time(0, 0, 0, 0, 0)

----------------------------------------------------------------------------
(* cmd/price-tracker: the values of a process that has not started. *)

NoArgs == [outputFile |-> "", dateStr |-> <<>>, enablePantry |-> FALSE]
NoEnv == [val |-> "", set |-> FALSE]
NoData == [date |-> "", prices |-> <<>>, fetched |-> ""]
NoOut == [dest |-> "", json |-> InvalidBody("")]

CLIIdle ==
    /\ args = NoArgs
    /\ env = NoEnv
    /\ now = ZeroTime
    /\ cpc = "none"
    /\ cdate = ZeroTime
    /\ cdata = NoData
    /\ out = NoOut
    /\ exited = FALSE
    /\ exitCode = 0
    /\ fatal = <<>>
    /\ net = <<>>
    /\ steps = <<>>
    /\ metrics = "none"

\* No function is applied on its own.
NoResult == [val |-> <<>>, returned |-> FALSE]

FuncsIdle ==
    /\ fn = "none"
    /\ fin = <<>>
    /\ fout = NoResult

\* The two runs, a run at a position of saveToPantry, and a run that has
\* returned err.
Runs == {1, 2}
RunAt(pos) == [err |-> Nil, pos |-> pos]
RunReturned(err) == [err |-> err, pos |-> "returned"]

\* The store holds no basket of the date.
NoBasket == [present |-> FALSE, payload |-> NoData]

\* No run of saveToPantry is under way.
RaceIdle ==
    /\ runs = [p \in Runs |-> RunAt("none")]
    /\ remote = NoBasket
    /\ served = <<>>
    /\ rdate = ZeroTime

----------------------------------------------------------------------------
(* The store client: any sequence of calls on one BasketManager. *)

NoCall == Call("none", "", "", "")

\* The caller cancels the context of the call, or its deadline fires, while
\* the call awaits the response.
CtxDone ==
    /\ pc = "waiting"
    /\ ctx = "live"
    /\ ctx' \in {"canceled", "deadline exceeded"}
    /\ UNCHANGED <<manager, pc, call, requests, resp, ret>>
    /\ UNCHANGED nonStoreVars

ScraperIdle ==
    /\ scraper = [httpClient |-> [Timeout |-> 0]]
    /\ spc = "idle"
    /\ sdate = [year |-> 0, month |-> 0, day |-> 0]
    /\ srequests = <<>>
    /\ sresp = [got |-> "none", cause |-> "", status |-> 0, body |-> <<>>, readErr |-> FALSE]
    /\ sparsed = FALSE
    /\ sret = [err |-> [prefix |-> "<nil>", cause |-> "", status |-> 0, body |-> <<>>],
               returned |-> FALSE, prices |-> <<>>]

InitStore ==
    /\ \E key \in APIKeys : manager = NewBasketManager([APIKey |-> key])
    /\ pc = "idle"
    /\ call = NoCall
    /\ requests = <<>>
    /\ resp = NoResp
    /\ ret = NoRet
    /\ ctx = "none"
    /\ ScraperIdle
    /\ CLIIdle
    /\ FuncsIdle
    /\ RaceIdle

NextStore ==
    \/ CreateBasketSend
    \/ CreateBasket
    \/ BasketExistsSend
    \/ BasketExists
    \/ ListBasketsSend
    \/ ListBaskets
    \/ UpdateBasketSend
    \/ UpdateBasket
    \/ GetBasketSend
    \/ GetBasket
    \/ CtxDone

SpecStore == InitStore /\ [][NextStore]_vars

\* httpClient.Do returns: the client's Timeout bounds every exchange, so a
\* call that awaits its response does not await it forever.
SpecStoreLive ==
    /\ SpecStore
    /\ WF_vars(CreateBasket)
    /\ WF_vars(BasketExists)
    /\ WF_vars(ListBaskets)
    /\ WF_vars(UpdateBasket)
    /\ WF_vars(GetBasket)

----------------------------------------------------------------------------
(* The EMMSA scraper.  Cell texts are sequences of one-character strings.  *)

Digits == {"0", "1", "2", "3", "4", "5", "6", "7", "8", "9"}

DigitValue(c) ==
    CASE c = "0" -> 0 [] c = "1" -> 1 [] c = "2" -> 2 [] c = "3" -> 3
      [] c = "4" -> 4 [] c = "5" -> 5 [] c = "6" -> 6 [] c = "7" -> 7
      [] c = "8" -> 8 [] c = "9" -> 9 [] OTHER -> 0

\* strings.TrimSpace
RECURSIVE TrimLeft(_)
TrimLeft(s) == IF s # <<>> /\ Head(s) = " " THEN TrimLeft(Tail(s)) ELSE s

RECURSIVE TrimRight(_)
TrimRight(s) ==
    IF s # <<>> /\ s[Len(s)] = " " THEN TrimRight(SubSeq(s, 1, Len(s) - 1)) ELSE s

TrimSpace(s) == TrimRight(TrimLeft(s))

RECURSIVE DigitsValue(_)
DigitsValue(s) ==
    IF s = <<>> THEN 0
    ELSE DigitsValue(SubSeq(s, 1, Len(s) - 1)) * 10 + DigitValue(s[Len(s)])

\* strconv.ParseFloat(s, 64) on texts of signs, digits and one decimal
\* point: [sign] digits [. digits] with at least one digit; anything else
\* (a blank inside, a letter, a decimal comma, the empty text) is an error
\* and the value is 0.  The value is kept in hundredths.
ParseFloat(s) ==
    LET signed == s # <<>> /\ Head(s) \in {"+", "-"}
        m == IF signed THEN Tail(s) ELSE s
        dots == {i \in 1..Len(m) : m[i] = "."}
        wellFormed == /\ \A i \in 1..Len(m) : m[i] \in Digits \cup {"."}
                      /\ Cardinality(dots) <= 1
                      /\ \E i \in 1..Len(m) : m[i] \in Digits
        dot == IF dots = {} THEN Len(m) + 1 ELSE CHOOSE i \in dots : TRUE
        whole == SubSeq(m, 1, dot - 1)
        frac == SubSeq(m, dot + 1, Len(m))
        tenths == IF Len(frac) >= 1 THEN DigitValue(frac[1]) ELSE 0
        hundredths == IF Len(frac) >= 2 THEN DigitValue(frac[2]) ELSE 0
        magnitude == DigitsValue(whole) * 100 + tenths * 10 + hundredths
    IN  IF wellFormed
        THEN [err |-> FALSE,
              val |-> IF signed /\ Head(s) = "-" THEN 0 - magnitude ELSE magnitude]
        ELSE [err |-> TRUE, val |-> 0]

\* time.Time.Format of a number on n digits, zero-padded
RECURSIVE Pad(_, _)
Pad(n, width) ==
    IF width = 0 THEN ""
    ELSE Pad(n \div 10, width - 1) \o ToString(n % 10)

\* date.Format("2006-01-02")
FormatISO(date) ==
    Pad(date.year, 4) \o "-" \o Pad(date.month, 2) \o "-" \o Pad(date.day, 2)

\* date.Format("02/01/2006")
FormatDMY(date) ==
    Pad(date.day, 2) \o "/" \o Pad(date.month, 2) \o "/" \o Pad(date.year, 4)

\* Errors of the scraper: the format prefix and what the format carries.
ScrapeNil == [prefix |-> "<nil>", cause |-> "", status |-> 0, body |-> <<>>]

ScrapeErrorf(prefix, cause, status, body) ==
    [prefix |-> prefix, cause |-> cause, status |-> status, body |-> body]

EMMSAPrice(date, product, variedad, precioMin, precioMax, precioProm) ==
    [Date |-> date, Product |-> product, Variedad |-> variedad,
     PrecioMin |-> precioMin, PrecioMax |-> precioMax, PrecioProm |-> precioProm]

\* The row callback as it would be with && for || in the skip test: a row
\* is dropped only when all three prices fail to parse.
EachRowKeepsPartial(prices, i, cells, date) ==
    IF i = 0 THEN prices
    ELSE IF Len(cells) < 5 THEN prices
    ELSE LET precioMin == ParseFloat(TrimSpace(cells[3]))
             precioMax == ParseFloat(TrimSpace(cells[4]))
             precioProm == ParseFloat(TrimSpace(cells[5]))
         IN  IF precioMin.err /\ precioMax.err /\ precioProm.err
             THEN prices
             ELSE Append(prices,
                         EMMSAPrice(FormatISO(date), TrimSpace(cells[1]),
                                    TrimSpace(cells[2]), precioMin.val,
                                    precioMax.val, precioProm.val))

\* The row callback as it would be with the new record put in front.
EachRowPrepends(prices, i, cells, date) ==
    IF i = 0 THEN prices
    ELSE IF Len(cells) < 5 THEN prices
    ELSE LET precioMin == ParseFloat(TrimSpace(cells[3]))
             precioMax == ParseFloat(TrimSpace(cells[4]))
             precioProm == ParseFloat(TrimSpace(cells[5]))
         IN  IF precioMin.err \/ precioMax.err \/ precioProm.err
             THEN prices
             ELSE <<EMMSAPrice(FormatISO(date), TrimSpace(cells[1]),
                               TrimSpace(cells[2]), precioMin.val,
                               precioMax.val, precioProm.val)>> \o prices

\* The callback of doc.Find("table tr").Each for the row of index i (from
\* 0) with td cells `cells`: the prices after the row.
EachRow(prices, i, cells, date) ==
    IF i = 0 THEN prices
    ELSE IF Len(cells) < 5 THEN prices
    ELSE LET precioMin == ParseFloat(TrimSpace(cells[3]))
             precioMax == ParseFloat(TrimSpace(cells[4]))
             precioProm == ParseFloat(TrimSpace(cells[5]))
         IN  IF precioMin.err \/ precioMax.err \/ precioProm.err
             THEN prices
             ELSE Append(prices,
                         EMMSAPrice(FormatISO(date), TrimSpace(cells[1]),
                                    TrimSpace(cells[2]), precioMin.val,
                                    precioMax.val, precioProm.val))

RECURSIVE EachFrom(_, _, _, _)
EachFrom(prices, k, rows, date) ==
    IF k > Len(rows) THEN prices
    ELSE EachFrom(EachRow(prices, k - 1, rows[k], date), k + 1, rows, date)

\* parsePriceTable as it would be with "no prices found" made an error.
parsePriceTableFailsOnEmpty(html, date) ==
    LET prices == EachFrom(<<>>, 1, html, date) IN
    [err |-> IF prices = <<>>
             THEN ScrapeErrorf("no prices found", "", 0, <<>>)
             ELSE ScrapeNil,
     prices |-> prices]

\* parsePriceTable(html, date): html is the document as the sequence of its
\* "table tr" rows in document order, each the sequence of its td texts.
\* goquery.NewDocumentFromReader does not fail on an in-memory reader (the
\* HTML parser accepts any bytes), so the error result is always nil.
parsePriceTable(html, date) ==
    [err |-> ScrapeNil, prices |-> EachFrom(<<>>, 1, html, date)]

----------------------------------------------------------------------------
(* What the provider may answer. *)

\* Data rows of at most this many follow the first row of a document.
MaxDataRows == 2

ProductCells == {<<"P", "A", "P", "A">>, <<" ", "L", "I", "M", "A", " ">>}
VariedadCell == <<"B">>

\* 1.50 and 2 parse; a letter, the empty text and a decimal comma do not.
Good1 == <<"1", ".", "5", "0">>
Good2 == <<" ", "2", " ">>
PriceTriples ==
    {<<Good1, Good2, Good1>>,
     <<Good2, Good2, Good2>>,
     <<<<"a">>, Good2, Good1>>,
     <<Good1, <<>>, Good1>>,
     <<Good1, Good2, <<"1", ",", "5">>>>}

\* Rows of 5 cells, a short row of 4 cells and a long row of 6 cells.
DataRows ==
    {<<p, VariedadCell, t[1], t[2], t[3]>> : p \in ProductCells, t \in PriceTriples}
    \cup {<<p, VariedadCell, Good1, Good2>> : p \in ProductCells}
    \cup {<<p, VariedadCell, Good1, Good2, Good1, <<"k", "g">>>> : p \in ProductCells}

\* The first row: a header of th cells (no td), or, in a table without a
\* header, a data row.
FirstRows == {<<>>, <<<<"P", "A", "P", "A">>, VariedadCell, Good1, Good2, Good1>>}

RECURSIVE SeqsUpTo(_, _)
SeqsUpTo(S, n) ==
    IF n = 0 THEN {<<>>}
    ELSE LET shorter == SeqsUpTo(S, n - 1) IN
         shorter \cup {Append(q, x) : q \in shorter, x \in S}

\* A body without any table row, or a first row and up to MaxDataRows rows.
Documents ==
    {<<>>} \cup {<<f>> \o rows : f \in FirstRows, rows \in SeqsUpTo(DataRows, MaxDataRows)}

ScrapeStatuses == {200, 201, 204, 404, 500}

ScrapeCauses == {"dial tcp: connect: connection refused",
                 "context deadline exceeded (Client.Timeout exceeded while awaiting headers)"}

\* The outcomes of httpClient.Do(req) followed by io.ReadAll(resp.Body): no
\* response; a response whose body cannot be read to its end; a response
\* with its body.
ScrapeOutcomes ==
    {[got |-> "error", cause |-> c, status |-> 0, body |-> <<>>, readErr |-> FALSE] :
        c \in ScrapeCauses}
    \cup {[got |-> "response", cause |-> "", status |-> st, body |-> b, readErr |-> re] :
        st \in ScrapeStatuses, re \in BOOLEAN, b \in Documents}

Dates == {[year |-> 2025, month |-> 6, day |-> 17],
          [year |-> 2024, month |-> 2, day |-> 29]}

ScraperTimeoutSeconds == 30

NewEMMSAScraper == [httpClient |-> [Timeout |-> ScraperTimeoutSeconds]]

emmsaAPIURL ==
    "https://old.emmsa.com.pe/emmsa_spv/app/reportes/ajax/rpt07_gettable_new_web.php"

NoScrapeResp == [got |-> "none", cause |-> "", status |-> 0, body |-> <<>>, readErr |-> FALSE]
NoScrapeRet == [err |-> ScrapeNil, returned |-> FALSE, prices |-> <<>>]

\* The form-encoded POST of ScrapePrices for a date.
ScrapeRequest(date) ==
    [url |-> emmsaAPIURL, method |-> "POST",
     form |-> [vid_tipo |-> "1", vprod |-> "", vvari |-> "",
               vfecha |-> FormatDMY(date)]]

\* ScrapePrices up to s.httpClient.Do(req): the form-encoded POST is issued.
ScrapePricesSend ==
    /\ Constructed(scraper)
    /\ spc \in {"idle", "done"}
    /\ \E date \in Dates :
        /\ sdate' = date
        /\ srequests' = <<ScrapeRequest(date)>>
    /\ spc' = "waiting"
    /\ sresp' = NoScrapeResp
    /\ sparsed' = FALSE
    /\ sret' = NoScrapeRet
    /\ UNCHANGED scraper
    /\ UNCHANGED nonScraperVars

\* ScrapePrices as it would be with the status check left out.
ScrapePricesNoStatusCheck(o, date) ==
    IF o.got = "error"
    THEN [err |-> ScrapeErrorf("error sending request", o.cause, 0, <<>>),
          prices |-> <<>>, parsed |-> FALSE]
    ELSE IF o.readErr
    THEN [err |-> ScrapeErrorf("error reading response", "unexpected EOF", 0, <<>>),
          prices |-> <<>>, parsed |-> FALSE]
    ELSE LET t == parsePriceTable(o.body, date) IN
         [err |-> t.err,
          prices |-> t.prices, parsed |-> TRUE]

\* What ScrapePrices returns for the outcome o of the exchange.
ScrapePricesResult(o, date) ==
    IF o.got = "error"
    THEN [err |-> ScrapeErrorf("error sending request", o.cause, 0, <<>>),
          prices |-> <<>>, parsed |-> FALSE]
    ELSE IF o.readErr
    THEN [err |-> ScrapeErrorf("error reading response", "unexpected EOF", 0, <<>>),
          prices |-> <<>>, parsed |-> FALSE]
    ELSE IF o.status # StatusOK
    THEN [err |-> ScrapeErrorf("API request failed with status", "", o.status, o.body),
          prices |-> <<>>, parsed |-> FALSE]
    ELSE LET t == parsePriceTable(o.body, date) IN
         [err |-> t.err,
          prices |-> t.prices, parsed |-> TRUE]

\* ScrapePrices from the return of s.httpClient.Do(req) on.
ScrapePrices ==
    /\ spc = "waiting"
    /\ \E o \in ScrapeOutcomes :
        LET r == ScrapePricesResult(o, sdate) IN
        /\ sresp' = o
        /\ sparsed' = r.parsed
        /\ sret' = [err |-> r.err, returned |-> TRUE, prices |-> r.prices]
    /\ spc' = "done"
    /\ UNCHANGED <<scraper, sdate, srequests>>
    /\ UNCHANGED nonScraperVars

StoreIdle ==
    /\ manager = [baseURL |-> "", apiKey |-> "", httpClient |-> [Timeout |-> 0]]
    /\ pc = "idle"
    /\ call = NoCall
    /\ requests = <<>>
    /\ resp = NoResp
    /\ ret = NoRet
    /\ ctx = "none"

InitScraper ==
    /\ scraper = NewEMMSAScraper
    /\ spc = "idle"
    /\ sdate \in Dates
    /\ srequests = <<>>
    /\ sresp = NoScrapeResp
    /\ sparsed = FALSE
    /\ sret = NoScrapeRet
    /\ StoreIdle
    /\ CLIIdle
    /\ FuncsIdle
    /\ RaceIdle

NextScraper ==
    \/ ScrapePricesSend
    \/ ScrapePrices

SpecScraper == InitScraper /\ [][NextScraper]_vars

----------------------------------------------------------------------------
(* The two components side by side: a process holds a BasketManager or an  *)
(* EMMSAScraper and calls its operations.                                  *)

InitCalls == InitStore \/ InitScraper

NextCalls == NextStore \/ NextScraper

SpecCalls == InitCalls /\ [][NextCalls]_vars

----------------------------------------------------------------------------
(* cmd/price-tracker: one run of the process.  A step runs main from one   *)
(* blocking point (the return of an HTTP exchange, the signal) to the next. *)

IsLeap(y) == (y % 4 = 0 /\ y % 100 # 0) \/ y % 400 = 0

DaysIn(y, m) ==
    IF m = 2 THEN (IF IsLeap(y) THEN 29 ELSE 28)
    ELSE IF m \in {4, 6, 9, 11} THEN 30 ELSE 31

\* time.Parse("2006-01-02", s): four digits, two digits and two digits
\* joined by "-", a month of the year and a day of that month; the value is
\* midnight UTC of that day.
ParseDate(s) ==
    LET shaped == /\ Len(s) = 10
                  /\ s[5] = "-"
                  /\ s[8] = "-"
                  /\ \A i \in {1, 2, 3, 4, 6, 7, 9, 10} : s[i] \in Digits
        y == DigitsValue(SubSeq(s, 1, 4))
        m == DigitsValue(SubSeq(s, 6, 7))
        d == DigitsValue(SubSeq(s, 9, 10))
    IN  IF shaped /\ m \in 1..12 /\ d \in 1..DaysIn(y, m)
        THEN [err |-> FALSE, val |-> Time(y, m, d, 0, 0)]
        ELSE [err |-> TRUE, val |-> ZeroTime]

\* The zone of time.RFC3339: "Z" for UTC, else the signed offset.
FormatZone(offset) ==
    IF offset = 0 THEN "Z"
    ELSE IF offset < 0 THEN "-" \o Pad(0 - offset, 2) \o ":00"
    ELSE "+" \o Pad(offset, 2) \o ":00"

\* t.Format(time.RFC3339), for a reading on the hour
FormatRFC3339(t) ==
    FormatISO(t) \o "T" \o Pad(t.hour, 2) \o ":00:00" \o FormatZone(t.offset)

\* -date values: none, two days, a day that does not exist, another layout.
DateStrs ==
    {<<>>,
     <<"2", "0", "2", "5", "-", "0", "6", "-", "1", "7">>,
     <<"2", "0", "2", "4", "-", "0", "2", "-", "2", "9">>,
     <<"2", "0", "2", "5", "-", "0", "2", "-", "2", "9">>,
     <<"1", "7", "/", "0", "6", "/", "2", "0", "2", "5">>}

OutputFiles == {"", "prices.json"}

Args ==
    {[outputFile |-> f, dateStr |-> s, enablePantry |-> p] :
        f \in OutputFiles, s \in DateStrs, p \in BOOLEAN}

\* PANTRY_API_KEY: unset, set to the empty string, set to a key.
Envs == {[val |-> "", set |-> FALSE], [val |-> "", set |-> TRUE],
         [val |-> "test-key-123", set |-> TRUE]}

\* Readings of the clock: late evening in Lima, early morning in Madrid.
Nows == {Time(2025, 6, 17, 23, 0 - 5), Time(2025, 6, 18, 1, 2)}

\* os.Getenv("PANTRY_API_KEY")
Getenv(e) == IF e.set THEN e.val ELSE ""

\* NewConfigFromEnv as it would be with os.LookupEnv: only an unset
\* variable is an error.
NewConfigFromEnvUnsetOnly(e) ==
    IF ~e.set
    THEN [err |-> Errorf("PANTRY_API_KEY environment variable not set", ""),
          cfg |-> [APIKey |-> ""]]
    ELSE [err |-> Nil, cfg |-> [APIKey |-> e.val]]

\* NewConfigFromEnv, for the environment e
NewConfigFromEnv(e) ==
    LET apiKey == Getenv(e) IN
    IF apiKey = ""
    THEN [err |-> Errorf("PANTRY_API_KEY environment variable not set", ""),
          cfg |-> [APIKey |-> ""]]
    ELSE [err |-> Nil, cfg |-> [APIKey |-> apiKey]]

\* The year of a layout with "2006": at least four digits, zero-padded.
FormatYear(y) == IF y > 9999 THEN ToString(y) ELSE Pad(y, 4)

\* BasketName as it would be with the layout "2006_1_2": no zero padding.
BasketNameUnpadded(t) ==
    "prices_" \o FormatYear(t.year) \o "_" \o ToString(t.month) \o "_" \o ToString(t.day)

\* fmt.Sprintf("prices_%s", date.Format("2006_01_02")): the fields of the
\* date in the value's own location.
BasketName(t) ==
    "prices_" \o FormatYear(t.year) \o "_" \o Pad(t.month, 2) \o "_" \o Pad(t.day, 2)

\* The data map of runPriceScraping.
Data(t, prices, fetched) ==
    [date |-> FormatISO(t), prices |-> prices, fetched |-> FormatRFC3339(fetched)]

\* json.MarshalIndent(data, "", "  ") of the data map: an object, its keys
\* in sorted order; the nil slice of a table without records is null.
MarshalIndent(d) ==
    ObjectBody(<<<<"date", Str(d.date)>>,
                 <<"fetched", Str(d.fetched)>>,
                 <<"prices", IF d.prices = <<>> THEN Null ELSE <<"array", d.prices>>>>>>,
               FALSE)

\* What the provider and the store answer in a run of the process.
CLIScrapeOutcomes ==
    {o \in ScrapeOutcomes :
        /\ o.status \in {0, 200, 500}
        /\ o.cause \in {"", "dial tcp: connect: connection refused"}
        /\ Len(o.body) <= 2
        /\ o.body # <<>> => o.body[1] = <<>>}

CLIStoreOutcomes ==
    {o \in StoreOutcomes :
        /\ o.status \in {0, 200, 404, 500}
        /\ o.cause \in {"", "dial tcp: connect: connection refused"}
        /\ o.body \in {InvalidBody(""), ObjectBody(<<>>, FALSE),
                       ObjectBody(<<<<"message", Str("invalid request")>>>>, FALSE)}}

\* log.Fatalf as it would be with a zero exit status.
FatalfExitsZero(msg) ==
    /\ fatal' = msg
    /\ exited' = TRUE
    /\ exitCode' = 0
    /\ cpc' = "exited"

\* log.Fatalf: the message is logged and the process exits with status 1.
Fatalf(msg) ==
    /\ fatal' = msg
    /\ exited' = TRUE
    /\ exitCode' = 1
    /\ cpc' = "exited"


\* A store call that names the basket after the clock reading of the run
\* instead of the date of the run.
StoreCallNamesNow(m, op, method, body) ==
    /\ call' = Call(op, BasketName(now), body, "")
    /\ requests' = <<Request(method, BasketURL(m, BasketName(now)), body,
                             IF method = "GET" THEN "" ELSE "application/json")>>
    /\ resp' = NoResp
    /\ ret' = NoRet
    /\ pc' = "waiting"
    /\ ctx' = "live"
    /\ net' = Append(net, [op |-> op, host |-> "store"])

\* A method of the manager is entered and its request is issued.  The name
\* of a basket of the process holds no escape, so the URL always parses.
StoreCall(m, op, method, body) ==
    /\ call' = Call(op, BasketName(cdate), body, "")
    /\ requests' = <<Request(method, BasketURL(m, BasketName(cdate)), body,
                             IF method = "GET" THEN "" ELSE "application/json")>>
    /\ resp' = NoResp
    /\ ret' = NoRet
    /\ pc' = "waiting"
    /\ ctx' = "live"
    /\ net' = Append(net, [op |-> op, host |-> "store"])

\* What a step of saveToPantry returned.
Step(op, exists, err) == [err |-> err, exists |-> exists, op |-> op]

\* saveToPantry up to the exchange of BasketExists.
SaveToPantry(d) ==
    LET c == NewConfigFromEnv(env) IN
    IF c.err # Nil
    THEN /\ steps' = Append(steps, Step("NewConfigFromEnv", FALSE, c.err))
         /\ Fatalf(<<"Failed to save to Pantry", "error loading Pantry config",
                     c.err.prefix>>)
         /\ UNCHANGED <<storeVars, net>>
    ELSE /\ steps' = Append(steps, Step("NewConfigFromEnv", FALSE, Nil))
         /\ manager' = NewBasketManager(c.cfg)
         /\ StoreCall(NewBasketManager(c.cfg), "BasketExists", "GET", "")
         /\ cpc' = "exists"
         /\ UNCHANGED <<exited, exitCode, fatal>>

\* runPriceScraping from json.MarshalIndent on, and main up to <-sigChan.
Output(d, writeOK) ==
    IF args.outputFile # "" /\ ~writeOK
    THEN /\ Fatalf(<<"Failed to write to file">>)
         /\ out' = out
    ELSE /\ out' = [dest |-> IF args.outputFile # "" THEN args.outputFile ELSE "stdout",
                    json |-> MarshalIndent(d)]
         /\ cpc' = "signal"
         /\ UNCHANGED <<exited, exitCode, fatal>>

\* main up to the exchange of ScrapePrices: the metrics server goroutine is
\* started and the date is taken from -date or from the clock.
Main ==
    /\ cpc = "main"
    /\ ~exited
    /\ metrics' = "starting"
    /\ LET parsed == IF args.dateStr = <<>>
                     THEN [err |-> FALSE, val |-> now]
                     ELSE ParseDate(args.dateStr)
       IN  IF parsed.err
           THEN /\ Fatalf(<<"Invalid date format">>)
                /\ UNCHANGED <<scraperVars, cdate, net>>
           ELSE /\ cdate' = parsed.val
                /\ scraper' = NewEMMSAScraper
                /\ sdate' = parsed.val
                /\ srequests' = <<ScrapeRequest(parsed.val)>>
                /\ spc' = "waiting"
                /\ net' = Append(net, [op |-> "ScrapePrices", host |-> "provider"])
                /\ cpc' = "scrape"
                /\ UNCHANGED <<sresp, sparsed, sret, exited, exitCode, fatal>>
    /\ UNCHANGED <<storeVars, args, env, now, cdata, out, steps>>
    /\ UNCHANGED nonCLIVars

\* runPriceScraping from the return of ScrapePrices: the fatal error of a
\* failed scrape, or the data map and then the upload (when enabled) or
\* the output.
RunPriceScraping ==
    /\ cpc = "scrape"
    /\ ~exited
    /\ \E o \in CLIScrapeOutcomes, writeOK \in BOOLEAN :
        LET r == ScrapePricesResult(o, cdate)
            d == Data(cdate, r.prices, now)
        IN  /\ sresp' = o
            /\ sparsed' = r.parsed
            /\ sret' = [err |-> r.err, returned |-> TRUE, prices |-> r.prices]
            /\ IF r.err # ScrapeNil
               THEN /\ Fatalf(<<"Failed to fetch prices", r.err.prefix>>)
                    /\ UNCHANGED <<storeVars, cdata, out, net, steps>>
               ELSE /\ cdata' = d
                    /\ IF args.enablePantry
                       THEN /\ SaveToPantry(d)
                            /\ out' = out
                       ELSE /\ Output(d, writeOK)
                            /\ UNCHANGED <<storeVars, net, steps>>
    /\ spc' = "done"
    /\ UNCHANGED <<scraper, sdate, srequests, args, env, now, cdate, metrics>>
    /\ UNCHANGED nonCLIVars


\* A saveToPantry that creates the basket whatever BasketExists answered.
SaveToPantryExistsAlwaysCreates ==
    /\ cpc = "exists"
    /\ ~exited
    /\ \E o \in CLIStoreOutcomes :
        LET r == BasketExistsResult(o) IN
        /\ steps' = Append(steps, Step("BasketExists", r.exists, r.err))
        /\ IF r.err # Nil
           THEN /\ resp' = o
                /\ ret' = r
                /\ pc' = "done"
                /\ Fatalf(<<"Failed to save to Pantry", "error checking if basket exists",
                            r.err.prefix>>)
                /\ UNCHANGED <<call, requests, ctx, net>>
           ELSE /\ StoreCall(manager, "CreateBasket", "POST", "")
                /\ cpc' = "create"
                /\ UNCHANGED <<exited, exitCode, fatal>>
    /\ UNCHANGED <<manager, scraperVars, args, env, now, cdate, cdata, out, metrics>>
    /\ UNCHANGED nonCLIVars

\* saveToPantry from the return of BasketExists.
SaveToPantryExists ==
    /\ cpc = "exists"
    /\ ~exited
    /\ \E o \in CLIStoreOutcomes :
        LET r == BasketExistsResult(o) IN
        /\ steps' = Append(steps, Step("BasketExists", r.exists, r.err))
        /\ IF r.err # Nil
           THEN /\ resp' = o
                /\ ret' = r
                /\ pc' = "done"
                /\ Fatalf(<<"Failed to save to Pantry", "error checking if basket exists",
                            r.err.prefix>>)
                /\ UNCHANGED <<call, requests, ctx, net>>
           ELSE /\ IF r.exists
                   THEN /\ StoreCall(manager, "UpdateBasket", "PUT", cdata)
                        /\ cpc' = "update"
                   ELSE /\ StoreCall(manager, "CreateBasket", "POST", "")
                        /\ cpc' = "create"
                /\ UNCHANGED <<exited, exitCode, fatal>>
    /\ UNCHANGED <<manager, scraperVars, args, env, now, cdate, cdata, out, metrics>>
    /\ UNCHANGED nonCLIVars

\* A saveToPantry that goes on to UpdateBasket whatever CreateBasket
\* returned.
SaveToPantryCreateSwallows ==
    /\ cpc = "create"
    /\ ~exited
    /\ \E o \in CLIStoreOutcomes :
        LET r == CreateBasketResult(o) IN
        /\ steps' = Append(steps, Step("CreateBasket", FALSE, r.err))
        /\ StoreCall(manager, "UpdateBasket", "PUT", cdata)
        /\ cpc' = "update"
        /\ UNCHANGED <<exited, exitCode, fatal>>
    /\ UNCHANGED <<manager, scraperVars, args, env, now, cdate, cdata, out, metrics>>
    /\ UNCHANGED nonCLIVars

\* saveToPantry from the return of CreateBasket.
SaveToPantryCreate ==
    /\ cpc = "create"
    /\ ~exited
    /\ \E o \in CLIStoreOutcomes :
        LET r == CreateBasketResult(o) IN
        /\ steps' = Append(steps, Step("CreateBasket", FALSE, r.err))
        /\ IF r.err # Nil
           THEN /\ resp' = o
                /\ ret' = r
                /\ pc' = "done"
                /\ Fatalf(<<"Failed to save to Pantry", "error creating basket",
                            r.err.prefix>>)
                /\ UNCHANGED <<call, requests, ctx, net>>
           ELSE /\ StoreCall(manager, "UpdateBasket", "PUT", cdata)
                /\ cpc' = "update"
                /\ UNCHANGED <<exited, exitCode, fatal>>
    /\ UNCHANGED <<manager, scraperVars, args, env, now, cdate, cdata, out, metrics>>
    /\ UNCHANGED nonCLIVars

\* saveToPantry from the return of UpdateBasket, and the output.
SaveToPantryUpdate ==
    /\ cpc = "update"
    /\ ~exited
    /\ \E o \in CLIStoreOutcomes, writeOK \in BOOLEAN :
        LET r == UpdateBasketResult(o) IN
        /\ steps' = Append(steps, Step("UpdateBasket", FALSE, r.err))
        /\ resp' = o
        /\ ret' = r
        /\ IF r.err # Nil
           THEN /\ Fatalf(<<"Failed to save to Pantry", "error updating basket",
                            r.err.prefix>>)
                /\ out' = out
           ELSE Output(cdata, writeOK)
    /\ pc' = "done"
    /\ UNCHANGED <<manager, call, requests, ctx, scraperVars,
                   args, env, now, cdate, cdata, net, metrics>>
    /\ UNCHANGED nonCLIVars

\* main from <-sigChan: an interrupt or a termination signal arrives, the
\* metrics server is shut down and main returns.
Signal ==
    /\ cpc = "signal"
    /\ ~exited
    /\ metrics' = IF metrics = "serving" THEN "closed" ELSE metrics
    /\ exited' = TRUE
    /\ exitCode' = 0
    /\ cpc' = "exited"
    /\ UNCHANGED <<storeVars, scraperVars, args, env, now, cdate, cdata, out, fatal, net,
                   steps>>
    /\ UNCHANGED nonCLIVars

\* The metrics goroutine: ListenAndServe has bound its address and serves.
MetricsServe ==
    /\ metrics = "starting"
    /\ ~exited
    /\ metrics' = "serving"
    /\ UNCHANGED <<storeVars, scraperVars, args, env, now, cpc, cdate, cdata, out,
                   exited, exitCode, fatal, net, steps>>
    /\ UNCHANGED nonCLIVars

\* The metrics goroutine: ListenAndServe fails (the address is in use).
MetricsFatal ==
    /\ metrics = "starting"
    /\ ~exited
    /\ Fatalf(<<"Failed to start metrics server">>)
    /\ UNCHANGED <<storeVars, scraperVars, args, env, now, cdate, cdata, out,
                   net, steps, metrics>>
    /\ UNCHANGED nonCLIVars

InitCLI ==
    /\ args \in Args
    /\ env \in Envs
    /\ now \in Nows
    /\ cpc = "main"
    /\ cdate = ZeroTime
    /\ cdata = NoData
    /\ out = NoOut
    /\ exited = FALSE
    /\ exitCode = 0
    /\ fatal = <<>>
    /\ net = <<>>
    /\ steps = <<>>
    /\ metrics = "none"
    /\ StoreIdle
    /\ ScraperIdle
    /\ FuncsIdle
    /\ RaceIdle

\* The steps of the process itself ...
ProgramCLI ==
    \/ Main
    \/ RunPriceScraping
    \/ SaveToPantryExists
    \/ SaveToPantryCreate
    \/ SaveToPantryUpdate
    \/ MetricsServe
    \/ MetricsFatal

\* ... and the signal of the operator.
NextCLI ==
    \/ ProgramCLI
    \/ Signal

SpecCLI == InitCLI /\ [][NextCLI]_vars

----------------------------------------------------------------------------
(* BasketName and NewConfigFromEnv applied on their own. *)

\* The day after and the day before the day of t, at the same hour.
NextDay(t) ==
    IF t.day < DaysIn(t.year, t.month)
    THEN Time(t.year, t.month, t.day + 1, t.hour, t.offset)
    ELSE IF t.month < 12
    THEN Time(t.year, t.month + 1, 1, t.hour, t.offset)
    ELSE Time(t.year + 1, 1, 1, t.hour, t.offset)

PrevDay(t) ==
    IF t.day > 1
    THEN Time(t.year, t.month, t.day - 1, t.hour, t.offset)
    ELSE IF t.month > 1
    THEN Time(t.year, t.month - 1, DaysIn(t.year, t.month - 1), t.hour, t.offset)
    ELSE Time(t.year - 1, 12, 31, t.hour, t.offset)

\* t.In(loc): the same instant read in the location of the given offset.
In(t, offset) ==
    LET h == t.hour + offset - t.offset IN
    IF h < 0
    THEN LET p == PrevDay(t) IN Time(p.year, p.month, p.day, h + 24, offset)
    ELSE IF h > 23
    THEN LET n == NextDay(t) IN Time(n.year, n.month, n.day, h - 24, offset)
    ELSE Time(t.year, t.month, t.day, h, offset)

\* Locations: Lima, UTC, Madrid in summer.
Offsets == {0 - 5, 0, 2}

NameYears == {1000, 2023, 2024, 9999}
NameHours == {0, 1, 23}

\* The time values BasketName is applied to.
NameTimes ==
    {t \in {Time(y, m, d, h, z) :
                y \in NameYears, m \in 1..12, d \in 1..31, h \in NameHours, z \in Offsets} :
        t.day <= DaysIn(t.year, t.month)}

\* Environments NewConfigFromEnv is applied in.
ConfigEnvs ==
    Envs \cup {[val |-> "test-key", set |-> TRUE], [val |-> " test-key ", set |-> TRUE]}

\* BasketName(t)
BasketNameCall ==
    /\ fn = "BasketName"
    /\ ~fout.returned
    /\ fout' = [val |-> BasketName(fin), returned |-> TRUE]
    /\ UNCHANGED <<fn, fin, storeVars, scraperVars, cliVars, raceVars>>

\* BasketName(t) and BasketName(u), for u == t.In(loc): one instant read in
\* two locations.
BasketNameIn ==
    /\ fn = "BasketNameIn"
    /\ ~fout.returned
    /\ fout' = [val |-> <<BasketName(fin[1]), BasketName(fin[2])>>, returned |-> TRUE]
    /\ UNCHANGED <<fn, fin, storeVars, scraperVars, cliVars, raceVars>>

\* NewConfigFromEnv()
NewConfigFromEnvCall ==
    /\ fn = "NewConfigFromEnv"
    /\ ~fout.returned
    /\ fout' = [val |-> NewConfigFromEnv(fin), returned |-> TRUE]
    /\ UNCHANGED <<fn, fin, storeVars, scraperVars, cliVars, raceVars>>

InitFuncs ==
    /\ \/ fn = "BasketName" /\ fin \in NameTimes
       \/ fn = "BasketNameIn" /\ fin \in {<<t, In(t, offset)>> : t \in NameTimes, offset \in Offsets}
       \/ fn = "NewConfigFromEnv" /\ fin \in ConfigEnvs
    /\ fout = NoResult
    /\ StoreIdle
    /\ ScraperIdle
    /\ CLIIdle
    /\ RaceIdle

NextFuncs ==
    \/ BasketNameCall
    \/ BasketNameIn
    \/ NewConfigFromEnvCall

SpecFuncs == InitFuncs /\ [][NextFuncs]_vars

----------------------------------------------------------------------------
(* Two runs of saveToPantry for one date, against one store.  The store    *)
(* answers every request (no transport failure); it rejects the creation   *)
(* of a basket that exists and creates or replaces on update.  A step is   *)
(* one request of one run, from its issue to the return of the call: the   *)
(* store serves one request at a time.                                     *)

\* The payloads of the two runs: the data maps differ by their fetched
\* stamp.
RunFetched == <<Time(2025, 6, 17, 23, 0 - 5), Time(2025, 6, 18, 1, 2)>>
RunPayload(p) == Data(rdate, <<>>, RunFetched[p])

\* What a basket held before the runs, if there was one.
OldPayload == Data(rdate, <<>>, Time(2025, 6, 17, 8, 0 - 5))

\* What the store answers to the requests of the three calls, for the
\* basket b, and the basket after a create and after an update with data.
RemoteAnswer(status, body) ==
    [got |-> "response", cause |-> "", status |-> status, body |-> body]
RemoteExists(b) ==
    IF b.present
    THEN RemoteAnswer(200, ObjectBody(<<<<"key", Str("value")>>>>, FALSE))
    ELSE RemoteAnswer(400, InvalidBody("oops"))
RemoteCreate(b) ==
    IF b.present
    THEN RemoteAnswer(400, InvalidBody("oops"))
    ELSE RemoteAnswer(200, InvalidBody("oops"))
RemoteCreated(b) ==
    IF b.present THEN b ELSE [present |-> TRUE, payload |-> NoData]
RemoteUpdate(b) == RemoteAnswer(200, ObjectBody(<<<<"key", Str("value")>>>>, FALSE))
RemoteUpdated(b, data) == [present |-> TRUE, payload |-> data]

\* An answered request.
Served(p, op, o) == [status |-> o.status, op |-> op, run |-> p]

\* saveToPantry of run p: BasketExists.
RaceBasketExists(p) ==
    /\ runs[p].pos = "exists"
    /\ LET o == RemoteExists(remote)
           r == BasketExistsResult(o)
       IN  /\ served' = Append(served, Served(p, "BasketExists", o))
           /\ runs' = [runs EXCEPT ![p] =
                  IF r.err # Nil
                  THEN RunReturned(Errorf("error checking if basket exists",
                                          r.err.prefix))
                  ELSE IF r.exists THEN RunAt("update") ELSE RunAt("create")]
    /\ UNCHANGED <<remote, rdate>>
    /\ UNCHANGED <<storeVars, scraperVars, cliVars, fnVars>>

\* saveToPantry of run p: CreateBasket.
RaceCreateBasket(p) ==
    /\ runs[p].pos = "create"
    /\ LET o == RemoteCreate(remote)
           r == CreateBasketResult(o)
       IN  /\ served' = Append(served, Served(p, "CreateBasket", o))
           /\ runs' = [runs EXCEPT ![p] =
                  IF r.err # Nil
                  THEN RunReturned(Errorf("error creating basket", r.err.prefix))
                  ELSE RunAt("update")]
    /\ remote' = RemoteCreated(remote)
    /\ rdate' = rdate
    /\ UNCHANGED <<storeVars, scraperVars, cliVars, fnVars>>

\* saveToPantry of run p: UpdateBasket and the return.
RaceUpdateBasket(p) ==
    /\ runs[p].pos = "update"
    /\ LET o == RemoteUpdate(remote)
           r == UpdateBasketResult(o)
       IN  /\ served' = Append(served, Served(p, "UpdateBasket", o))
           /\ runs' = [runs EXCEPT ![p] =
                  IF r.err # Nil
                  THEN RunReturned(Errorf("error updating basket", r.err.prefix))
                  ELSE RunReturned(Nil)]
    /\ remote' = RemoteUpdated(remote, RunPayload(p))
    /\ rdate' = rdate
    /\ UNCHANGED <<storeVars, scraperVars, cliVars, fnVars>>

InitRace ==
    /\ rdate \in Dates
    /\ runs = [p \in Runs |-> RunAt("exists")]
    /\ remote \in {NoBasket, [present |-> TRUE, payload |-> OldPayload]}
    /\ served = <<>>
    /\ StoreIdle
    /\ ScraperIdle
    /\ CLIIdle
    /\ FuncsIdle

NextRace ==
    \/ \E p \in Runs : RaceBasketExists(p)
    \/ \E p \in Runs : RaceCreateBasket(p)
    \/ \E p \in Runs : RaceUpdateBasket(p)

SpecRace == InitRace /\ [][NextRace]_vars

----------------------------------------------------------------------------
(* Properties of the store client (checked under SpecStore). *)

StoreDone(op) == pc = "done" /\ call.op = op

\* C1: BasketExists returns (true, nil) if and only if the response status
\* is exactly 200 OK; for every other response status, any other 2xx
\* included, it returns (false, nil).
C1_BasketExistsIffStatusOK ==
    StoreDone("BasketExists") =>
        /\ resp.got = "response" =>
              /\ ret.err = Nil
              /\ ret.exists <=> (resp.status = 200)
        /\ (ret.exists /\ ret.err = Nil) => (resp.got = "response" /\ resp.status = 200)

C1_Witness ==
    /\ StoreDone("BasketExists")
    /\ resp.got = "response"
    /\ resp.status = 204
    /\ ret = Return(FALSE, <<>>, {}, Nil)

\* C2: when the exchange of BasketExists fails at transport level (no
\* response is received), BasketExists returns a non-nil error, never
\* (false, nil); (false, nil) is returned only for a received response.
C2_TransportFailureIsAnError ==
    StoreDone("BasketExists") =>
        /\ resp.got = "error" => (ret.err # Nil /\ ret.err.detail = resp.cause)
        /\ (ret.returned /\ ~ret.exists /\ ret.err = Nil) => resp.got = "response"

C2_Witness ==
    /\ StoreDone("BasketExists")
    /\ resp.got = "error"
    /\ resp.cause = "dial tcp: connect: connection refused"
    /\ ret.err = Errorf("request failed", "dial tcp: connect: connection refused")

\* A body that decodes as {message: string}: one JSON object, nothing after
\* it, with a message member that is a string.
DecodesAsMessage(b) ==
    /\ b.kind = "object"
    /\ ~b.trail
    /\ \E i \in 1..Len(b.obj) : FoldsToMessage(b.obj[i][1]) /\ b.obj[i][2][1] = "string"
    /\ \A i \in 1..Len(b.obj) : FoldsToMessage(b.obj[i][1]) => b.obj[i][2][1] = "string"

ProviderMessage(b) ==
    LET i == CHOOSE j \in 1..Len(b.obj) : FoldsToMessage(b.obj[j][1]) IN b.obj[i][2][2]

ErrorOps == {"CreateBasket", "UpdateBasket", "GetBasket", "ListBaskets"}

\* C3: for CreateBasket, UpdateBasket, GetBasket and ListBaskets, on a
\* non-OK response the error carries the provider's message when the body
\* decodes as {message: string}, and the raw HTTP status line in every
\* other case (empty body, non-JSON body, JSON that is not an object with a
\* string message).
C3_MessageElseStatusLine ==
    (pc = "done" /\ call.op \in ErrorOps /\ resp.got = "response" /\ resp.status # 200) =>
        IF DecodesAsMessage(resp.body)
        THEN ret.err.detail = ProviderMessage(resp.body)
        ELSE ret.err.detail = StatusLine(resp.status)

\* C4: CreateBasket and UpdateBasket return success exactly when a response
\* is received and its status is OK; every non-OK response gives the
\* operation's remote error.
C4_SuccessIffStatusOK ==
    (pc = "done" /\ call.op \in {"CreateBasket", "UpdateBasket"}) =>
        /\ ret.err = Nil <=> (resp.got = "response" /\ resp.status = 200)
        /\ (resp.got = "response" /\ resp.status # 200) =>
              ret.err.prefix = (IF call.op = "CreateBasket"
                                THEN "failed to create basket"
                                ELSE "failed to update basket")

C4_Witness ==
    /\ StoreDone("UpdateBasket")
    /\ resp.got = "response"
    /\ resp.status = 201
    /\ ret.err = Errorf("failed to update basket", "201 Created")

\* A body that is valid JSON: one JSON value and nothing but blanks after it.
ValidJSON(b) == b.kind # "invalid" /\ ~b.trail

\* A valid body matches the target shape: an array of names for
\* ListBaskets, an object (of strings, for a map of strings) for GetBasket;
\* null is the empty value of either.
MatchesShape(b, op, ttype) ==
    \/ b.kind = "scalar" /\ b.sc = Null
    \/ /\ op = "ListBaskets"
       /\ b.kind = "array"
       /\ \A i \in 1..Len(b.arr) : b.arr[i][1] # "number"
    \/ /\ op = "GetBasket"
       /\ b.kind = "object"
       /\ ttype = "map[string]string" =>
              \A i \in 1..Len(b.obj) : b.obj[i][2][1] # "number"

RemotePrefix(op) ==
    IF op = "GetBasket" THEN "failed to get basket" ELSE "failed to list baskets"

\* C5: GetBasket and ListBaskets put every received response in exactly one
\* of three classes: a non-OK status gives the remote error and no result;
\* an OK status with a body that is not valid JSON or does not match the
\* target shape gives the decode error, which differs from the remote
\* error; an OK status with a decodable body gives success and the decoded
\* body as the result (for ListBaskets the names in array order).
C5_ThreeOutcomes ==
    (pc = "done" /\ call.op \in {"GetBasket", "ListBaskets"} /\ resp.got = "response") =>
        IF resp.status # 200
        THEN /\ ret.err.prefix = RemotePrefix(call.op)
             /\ ret.baskets = <<>>
             /\ ret.target = {}
        ELSE IF ~(ValidJSON(resp.body) /\ MatchesShape(resp.body, call.op, call.ttype))
        THEN /\ ret.err.prefix = "failed to decode response"
             /\ ret.err.prefix # RemotePrefix(call.op)
        ELSE /\ ret.err = Nil
             /\ call.op = "ListBaskets" =>
                   /\ Len(ret.baskets) = Len(resp.body.arr)
                   /\ \A i \in 1..Len(ret.baskets) : ret.baskets[i] = resp.body.arr[i][2]
             /\ call.op = "GetBasket" =>
                   {<<e[1], e[2][2]>> : e \in ret.target} =
                   {<<resp.body.obj[i][1], resp.body.obj[i][2][2]>> : i \in 1..Len(resp.body.obj)}

----------------------------------------------------------------------------
(* Properties of the scraper (checked under SpecScraper). *)

\* A row qualifies: at least 5 cells, and the min, max and avg cells parse.
Qualifies(cells) ==
    /\ Len(cells) >= 5
    /\ ~ParseFloat(TrimSpace(cells[3])).err
    /\ ~ParseFloat(TrimSpace(cells[4])).err
    /\ ~ParseFloat(TrimSpace(cells[5])).err

\* The record of a qualifying row.
RecordOf(cells, date) ==
    [Date |-> FormatISO(date),
     Product |-> TrimSpace(cells[1]),
     Variedad |-> TrimSpace(cells[2]),
     PrecioMin |-> ParseFloat(TrimSpace(cells[3])).val,
     PrecioMax |-> ParseFloat(TrimSpace(cells[4])).val,
     PrecioProm |-> ParseFloat(TrimSpace(cells[5])).val]

\* The rows after the first that qualify, by position.
QualifyingRows(rows) == {k \in 2..Len(rows) : Qualifies(rows[k])}

\* C6: parsing a price table yields exactly one record for each row after
\* the first that has at least 5 cells and whose three price cells parse,
\* and no record for any other row (the first row, a short row, a row with
\* an unparsable price), and never an error.
C6_OneRecordPerQualifyingRow ==
    (spc = "done" /\ sparsed) =>
        LET rows == sresp.body
            qual == QualifyingRows(rows)
            prices == sret.prices
        IN  /\ sret.err = ScrapeNil
            /\ Len(prices) = Cardinality(qual)
            /\ \A k \in qual : \E i \in 1..Len(prices) : prices[i] = RecordOf(rows[k], sdate)
            /\ \A i \in 1..Len(prices) : \E k \in qual : prices[i] = RecordOf(rows[k], sdate)

\* One well-formed row and one row with a non-numeric price cell.
C6_Witness ==
    /\ spc = "done"
    /\ sparsed
    /\ sresp.body = <<<<>>,
                      <<<<"P", "A", "P", "A">>, VariedadCell, Good1, Good2, Good1>>,
                      <<<<"P", "A", "P", "A">>, VariedadCell, <<"a">>, Good2, Good1>>>>
    /\ Len(sret.prices) = 1
    /\ sret.prices[1].PrecioMin = 150
    /\ sret.prices[1].PrecioMax = 200

\* The k-th (from 1) of a set of positions, in increasing order.
RECURSIVE Nth(_, _)
Nth(S, k) ==
    LET least == CHOOSE x \in S : \A y \in S : x <= y IN
    IF k = 1 THEN least ELSE Nth(S \ {least}, k - 1)

\* C7: the sequence ScrapePrices returns keeps the order of the rows it was
\* built from, and rows with the same (product, variety) all appear: the
\* i-th record is the record of the i-th qualifying row.
C7_SourceRowOrder ==
    (spc = "done" /\ sparsed) =>
        LET rows == sresp.body
            qual == QualifyingRows(rows)
        IN  /\ Len(sret.prices) = Cardinality(qual)
            /\ \A i \in 1..Len(sret.prices) :
                  sret.prices[i] = RecordOf(rows[Nth(qual, i)], sdate)

\* Two rows of the same product and variety, with different prices.
C7_Witness ==
    /\ spc = "done"
    /\ sparsed
    /\ Len(sret.prices) = 2
    /\ sret.prices[1].Product = sret.prices[2].Product
    /\ sret.prices[1].Variedad = sret.prices[2].Variedad
    /\ sret.prices[1].PrecioMin = 200
    /\ sret.prices[2].PrecioMin = 150

\* The exchange failed: no response, an unreadable body, or a non-OK status.
ScrapeFailed ==
    sresp.got = "error" \/ sresp.readErr \/ sresp.status # 200

C9_Non2xxCarriesStatusAndBody ==
    (spc = "done" /\ sresp.got = "response" /\ sresp.status \notin 200..299) =>
        /\ sret.err # ScrapeNil
        /\ sret.err.status = sresp.status
        /\ sret.err.body = sresp.body
        /\ sret.prices = <<>>
        /\ ~sparsed

\* C9 as amended: for every response whose status is not 2xx, ScrapePrices
\* returns an error and no records and never parses the body; the error
\* carries the status code and the raw body when the body was read to its
\* end, and is the read error, carrying neither, when reading it failed.
C9_Non2xxIsAnError ==
    (spc = "done" /\ sresp.got = "response" /\ sresp.status \notin 200..299) =>
        /\ sret.err # ScrapeNil
        /\ sret.prices = <<>>
        /\ ~sparsed
        /\ IF sresp.readErr
           THEN sret.err = ScrapeErrorf("error reading response", "unexpected EOF", 0, <<>>)
           ELSE /\ sret.err.prefix = "API request failed with status"
                /\ sret.err.status = sresp.status
                /\ sret.err.body = sresp.body

C9_Witness ==
    /\ spc = "done"
    /\ sresp.got = "response"
    /\ sresp.status = 404
    /\ ~sresp.readErr
    /\ Len(sresp.body) = 2
    /\ sret.err = ScrapeErrorf("API request failed with status", "", 404, sresp.body)
    /\ sret.prices = <<>>
    /\ ~sparsed

\* C10: ScrapePrices returns the upstream error only for non-2xx responses:
\* every response with a 2xx status whose body was read is taken for
\* successful and parsed into records.
C10_Every2xxIsParsed ==
    (spc = "done" /\ sresp.got = "response" /\ ~sresp.readErr
        /\ sresp.status \in 200..299) =>
        /\ sret.err = ScrapeNil
        /\ sparsed

----------------------------------------------------------------------------
(* Properties of both components (checked under SpecCalls). *)

\* C11: every call of ScrapePrices, BasketExists, CreateBasket, UpdateBasket,
\* GetBasket and ListBaskets issues at most one outbound HTTP request,
\* whatever the outcome: a call that returned after a transport failure or a
\* non-OK response has issued exactly the one request, never a second.
C11_AtMostOneRequest ==
    /\ Len(requests) <= 1
    /\ Len(srequests) <= 1
    /\ (pc = "done" /\ resp.got # "none") => Len(requests) = 1
    /\ (spc = "done" /\ sresp.got # "none") => Len(srequests) = 1

C11_Witness ==
    /\ StoreDone("UpdateBasket")
    /\ resp.got = "error"
    /\ ret.err.prefix = "request failed"
    /\ Len(requests) = 1
    /\ requests[1].method = "PUT"

----------------------------------------------------------------------------
(* Properties of a run of the process (checked under SpecCLI). *)

\* The message chain of the fatal error holds msg.
FatalHolds(msg) == \E i \in 1..Len(fatal) : fatal[i] = msg

\* The fatal configuration error: PANTRY_API_KEY is absent.
ConfigFatal ==
    /\ exited
    /\ FatalHolds("error loading Pantry config")
    /\ FatalHolds("PANTRY_API_KEY environment variable not set")

\* C12: in a run where PANTRY_API_KEY is absent, the fatal configuration
\* error is raised before the process has issued any outbound network call:
\* no request to the price provider and no request to the store precedes it.
C12_ConfigErrorBeforeAnyRequest ==
    ConfigFatal => net = <<>>

\* C13: if a run hits a fatal error (missing config, scrape failure, or
\* upload failure with persistence enabled), the process exits with a
\* non-zero status and the JSON output is never written, to the output file
\* or to standard output, in that run.
C13_FatalMeansNoOutput ==
    (FatalHolds("Failed to fetch prices") \/ FatalHolds("Failed to save to Pantry")) =>
        /\ exited
        /\ exitCode # 0
        /\ out = NoOut

\* The upload fails at its last step, with an output file chosen.
C13_Witness ==
    /\ exited
    /\ fatal = <<"Failed to save to Pantry", "error updating basket",
                 "failed to update basket">>
    /\ args.enablePantry
    /\ args.outputFile = "prices.json"
    /\ net[Len(net)].op = "UpdateBasket"
    /\ exitCode = 1
    /\ out = NoOut

\* A successful run: the JSON is written and no fatal error was hit.
Successful == out # NoOut /\ fatal = <<>>

\* C14: a successful run (scrape succeeded, upload succeeded or disabled,
\* JSON written) terminates with exit status zero without needing any
\* further external event: until it has exited with status zero, a step of
\* the process itself (not the signal of an operator) is enabled.
C14_TerminatesWithoutSignal ==
    Successful => ((exited /\ exitCode = 0) \/ ENABLED ProgramCLI)

\* The keys of a JSON object.
Keys(b) == {b.obj[i][1] : i \in 1..Len(b.obj)}

\* C15: the shape of the emitted JSON depends on the persistence flag: with
\* persistence enabled it is an object with date, prices and fetched; with
\* persistence disabled it is a bare array of price records.
C15_ShapeFollowsPersistenceFlag ==
    out # NoOut =>
        IF args.enablePantry
        THEN out.json.kind = "object" /\ Keys(out.json) = {"date", "prices", "fetched"}
        ELSE out.json.kind = "array"

----------------------------------------------------------------------------
(* Properties of BasketName and NewConfigFromEnv (checked under SpecFuncs). *)

\* A number below 100 on two digits.
TwoDigits(n) == IF n < 10 THEN "0" \o ToString(n) ELSE ToString(n)

\* C16: BasketName is a function of the date alone: for every date with a
\* four-digit year the name is "prices_", the year, the two-digit month and
\* the two-digit day joined by underscores, whatever the hour and the
\* location (2023-12-01 gives prices_2023_12_01, 2024-02-29 gives
\* prices_2024_02_29).
C16_BasketNameOfDate ==
    (fn = "BasketName" /\ fout.returned /\ fin.year \in 1000..9999) =>
        /\ fout.val = "prices_" \o ToString(fin.year) \o "_" \o TwoDigits(fin.month)
                          \o "_" \o TwoDigits(fin.day)
        /\ (fin.year = 2023 /\ fin.month = 12 /\ fin.day = 1) =>
              fout.val = "prices_2023_12_01"
        /\ (fin.year = 2024 /\ fin.month = 2 /\ fin.day = 29) =>
              fout.val = "prices_2024_02_29"

C16_Witness ==
    /\ fn = "BasketName"
    /\ fout.returned
    /\ fin = Time(2024, 2, 29, 0, 0)
    /\ fout.val = "prices_2024_02_29"

\* C17: BasketName is invariant under timezone normalization: two time
\* values that denote the same instant in different locations (23:00 UTC
\* and the same instant at UTC+2) give the same basket name.
C17_SameInstantSameName ==
    (fn = "BasketNameIn" /\ fout.returned) => fout.val[1] = fout.val[2]

\* C19: NewConfigFromEnv fails, with the error that names PANTRY_API_KEY,
\* when the variable is unset or empty, and otherwise succeeds with a
\* config whose APIKey is the variable's value exactly; it never returns
\* both a non-empty key and an error.
C19_ConfigFromEnv ==
    (fn = "NewConfigFromEnv" /\ fout.returned) =>
        /\ IF ~fin.set \/ fin.val = ""
           THEN fout.val.err = Errorf("PANTRY_API_KEY environment variable not set", "")
           ELSE fout.val.err = Nil /\ fout.val.cfg.APIKey = fin.val
        /\ ~(fout.val.cfg.APIKey # "" /\ fout.val.err # Nil)

\* The variable is set, to the empty string.
C19_Witness ==
    /\ fn = "NewConfigFromEnv"
    /\ fout.returned
    /\ fin = [val |-> "", set |-> TRUE]
    /\ fout.val.err.prefix = "PANTRY_API_KEY environment variable not set"
    /\ fout.val.cfg.APIKey = ""

----------------------------------------------------------------------------
(* Cancellation of a store call (checked under SpecStoreLive). *)

\* The context of the current call is done: it was cancelled, or its
\* deadline fired, while the call awaited the response.
CtxIsDone == ctx \in {"canceled", "deadline exceeded"}

\* C18: for each of BasketExists, CreateBasket, UpdateBasket, GetBasket and
\* ListBaskets, if the caller's context is cancelled or its deadline fires
\* while the call awaits the HTTP response, the wait is aborted and the
\* call eventually returns an error: it never returns success and never
\* blocks forever after the cancellation.
C18_CancellationAbortsTheWait ==
    /\ []((pc = "done" /\ CtxIsDone) =>
            (ret.err = Errorf("request failed", CtxErr(ctx)) /\ ~ret.exists))
    /\ (pc = "waiting" /\ CtxIsDone) ~> (pc = "done" /\ ret.err # Nil)

C18_Witness ==
    /\ StoreDone("GetBasket")
    /\ ctx = "deadline exceeded"
    /\ resp.got = "error"
    /\ ret.err = Errorf("request failed", "context deadline exceeded")
    /\ ret.target = {}

----------------------------------------------------------------------------
(* The components are immutable (checked under SpecCalls). *)

StoreOps == {"BasketExists", "CreateBasket", "UpdateBasket"}

\* The requests the run has sent to the store, in order of issue.
StoreRequests == SelectSeq(net, LAMBDA n : n.host = "store")

\* What the store calls of saveToPantry returned, in order.
StoreReturns == SelectSeq(steps, LAMBDA s : s.op \in StoreOps)

\* saveToPantry returned nil: the run went on to emit the payload.
SaveReturnedNil ==
    /\ args.enablePantry
    /\ \/ cpc = "signal"
       \/ out # NoOut
       \/ fatal = <<"Failed to write to file">>

\* C21: no step failure of saveToPantry is swallowed.  When loading the
\* config, BasketExists, CreateBasket or UpdateBasket returns an error, that
\* step is the last one of saveToPantry: every store request issued so far
\* has returned and none follows (in particular no UpdateBasket after a
\* failed BasketExists or CreateBasket), and the run has ended as a fatal
\* failure with exit status 1 and nothing emitted.  saveToPantry returns nil
\* only when its last step is an UpdateBasket that returned nil.
C21_NoStepFailureSwallowed ==
    /\ \A i \in 1..Len(steps) :
          steps[i].err # Nil =>
            /\ i = Len(steps)
            /\ Len(StoreRequests) = Len(StoreReturns)
            /\ steps[i].op # "UpdateBasket" =>
                  \A k \in 1..Len(StoreRequests) : StoreRequests[k].op # "UpdateBasket"
            /\ exited
            /\ exitCode = 1
            /\ FatalHolds("Failed to save to Pantry")
            /\ FatalHolds(steps[i].err.prefix)
            /\ out = NoOut
            /\ ~SaveReturnedNil
    /\ SaveReturnedNil =>
          /\ steps # <<>>
          /\ steps[Len(steps)] = Step("UpdateBasket", FALSE, Nil)

\* A run in which BasketExists answered false, CreateBasket failed, and the
\* process has exited without sending an UpdateBasket.
C21_Witness ==
    /\ Len(steps) = 3
    /\ steps[2] = Step("BasketExists", FALSE, Nil)
    /\ steps[3].op = "CreateBasket"
    /\ steps[3].err # Nil
    /\ exited
    /\ Len(StoreRequests) = 2

\* The positions of the requests of one operation in the request log.
Issued(op) == {k \in 1..Len(StoreRequests) : StoreRequests[k].op = op}

\* The store call whose request is the k-th has returned r.
Returned(k, r) == k <= Len(StoreReturns) /\ StoreReturns[k] = r

CalendarDays ==
    {d \in [year : 2024..2025, month : 1..12, day : 1..31] :
        d.day <= DaysIn(d.year, d.month)}

DayDMY(d) == TwoDigits(d.day) \o "/" \o TwoDigits(d.month) \o "/" \o ToString(d.year)
DayISO(d) == ToString(d.year) \o "-" \o TwoDigits(d.month) \o "-" \o TwoDigits(d.day)
DayName(d) ==
    "prices_" \o ToString(d.year) \o "_" \o TwoDigits(d.month) \o "_" \o TwoDigits(d.day)

\* Every date the run has written so far spells the calendar day d.
RunIsOfDay(d) ==
    /\ \A i \in 1..Len(srequests) : srequests[i].form.vfecha = DayDMY(d)
    /\ \A i \in 1..Len(sret.prices) : sret.prices[i].Date = DayISO(d)
    /\ cdata # NoData =>
          /\ cdata.date = DayISO(d)
          /\ \A i \in 1..Len(cdata.prices) : cdata.prices[i].Date = DayISO(d)
    /\ call.op # "none" => call.basketName = DayName(d)
    /\ \A i \in 1..Len(requests) :
          /\ requests[i].url[4] = DayName(d)
          /\ requests[i].method = "PUT" =>
                /\ requests[i].body.date = DayISO(d)
                /\ \A j \in 1..Len(requests[i].body.prices) :
                      requests[i].body.prices[j].Date = DayISO(d)
    /\ (out # NoOut /\ args.enablePantry) =>
          out.json.obj[1] = <<"date", Str(DayISO(d))>>

\* C24: within one CLI run a single calendar day drives everything: the
\* vfecha sent to the provider (DD/MM/YYYY), the date of every price
\* record, the date of the payload emitted and uploaded, and the basket
\* name all spell one and the same day, the day of the run's date value in
\* its own location; so no payload goes under a basket name of another day
\* than the one its prices were requested for.
C24_OneDayDrivesTheRun ==
    /\ \E d \in CalendarDays : RunIsOfDay(d)
    /\ cpc \notin {"main"} /\ srequests # <<>> =>
          RunIsOfDay([year |-> cdate.year, month |-> cdate.month, day |-> cdate.day])

\* A run without -date, started at an instant whose day in UTC is not its
\* local day, that has sent the payload with at least one price record to
\* the store.
C24_Witness ==
    /\ args.dateStr = <<>>
    /\ now = Time(2025, 6, 17, 23, 0 - 5)
    /\ call.op = "UpdateBasket"
    /\ requests # <<>>
    /\ requests[1].method = "PUT"
    /\ requests[1].body.prices # <<>>
    /\ requests[1].url[4] = "prices_2025_06_17"
    /\ srequests[1].form.vfecha = "17/06/2025"

(***************************************************************************)
(* Two runs for one date                                                   *)
(***************************************************************************)

BothReturned == \A p \in Runs : runs[p].pos = "returned"

\* C23: when two runs of saveToPantry for the same date execute
\* concurrently against a store that rejects the creation of an existing
\* basket and upserts on update, with no transport failure, every
\* interleaving of their requests ends with both runs returning nil and
\* the basket holding the payload of one of the two runs.
C23_BothRunsSucceed ==
    BothReturned =>
        /\ \A p \in Runs : runs[p].err = Nil
        /\ remote.present
        /\ remote.payload \in {RunPayload(p) : p \in Runs}

====
